---- MODULE Spec2Model ----
(***************************************************************************)
(* Model of script.js of the nyancoin crafting calculator: the recursive   *)
(* cost / stamina resolver over the recipe graph, the requirement schedule *)
(* and the efficiency optimizer (calcEfficiency).                          *)
(*                                                                         *)
(* Conventions                                                             *)
(*  - Monetary values (prices, stamina_cost, costs) are integers counted   *)
(*    in hundredths of a coin; rewards are whole coins; stamina is whole.  *)
(*  - efficiency_limit is counted in hundredths (0.36 is 36).              *)
(*  - A JavaScript object is a function whose DOMAIN is its set of keys,   *)
(*    so "x[k] !== undefined" is "k \in DOMAIN x".                         *)
(*  - Object.entries(recipe.ingredients) is a sequence of [name, count]    *)
(*    records in insertion order.                                          *)
(*  - The categories '가공품' and '방직' of the source are written         *)
(*    "processed" and "weaving".                                           *)
(*  - A resolver result is a record: Num(v) for a number, Err(kind, name)  *)
(*    for an error object.                                                 *)
(***************************************************************************)
EXTENDS Integers, Sequences, FiniteSets, TLC

VARIABLES appData, phase, call,
          page, inputs, slotResults, summary, listenerAdded, offered

vars ==
  <<appData, phase, call, page, inputs, slotResults, summary, listenerAdded, offered>>

\* the state of the pages: the page shown, the slot inputs of the grid, the
\* stored slot results, the total summary shown, the flag of the file input
\* of the calculator and the file most recently handed to a loading path
uiVars == <<page, inputs, slotResults, summary, listenerAdded, offered>>

(***************************************************************************)
(* Bounds of the model                                                     *)
(***************************************************************************)
MaxIngredients == 2
MaxCount == 2
MaxPrice == 250
OverlapPrice == 70
StaminaUnit == 1
MaxStaminaCost == 150
MaxReward == 5

Names == {"A", "B", "C", "M"}
Categories == {"other", "processed", "weaving"}
Levels == {0, 10}

(***************************************************************************)
(* Results                                                                 *)
(***************************************************************************)
Num(v) == [error |-> "none", name |-> "", val |-> v]

Err(kind, n) == [error |-> kind, name |-> n, val |-> 0]

IsError(r) == r.error # "none"

(***************************************************************************)
(* Math.round(count * (1 - conservationLevel * 0.05)) in IEEE doubles.     *)
(* The exact product is count * (20 - level) / 20; the double factor       *)
(* 1 - level * 0.05 falls below the exact one for some levels, and for the *)
(* pairs of FloatBelowHalf the double product lands just below k + 0.5, so *)
(* Math.round gives k where the exact value rounds to k + 1 (counts 1..10).*)
(***************************************************************************)
FloatBelowHalf == {<<7, 10>>, <<14, 5>>, <<17, 10>>, <<18, 5>>, <<19, 10>>}

RoundHalfUp(num, den) == (2 * num + den) \div (2 * den)

MathRound(count, level) ==
  RoundHalfUp(count * (20 - level), 20)
    - (IF <<level, count>> \in FloatBelowHalf THEN 1 ELSE 0)

ExemptProcessedOnly(recipe) == recipe.category = "processed"

Exempt(recipe) == recipe.category = "processed" \/ recipe.category = "weaving"

reductionLevel(recipe, conservationLevel) ==
  IF ~Exempt(recipe) THEN conservationLevel ELSE 0

reducedCount(recipe, count, conservationLevel) ==
  MathRound(count, reductionLevel(recipe, conservationLevel))

(***************************************************************************)
(* Lookups                                                                 *)
(***************************************************************************)
\* a material is looked up before a recipe; the mutant looks the recipe up first
isMaterialUnlessRecipe(d, itemName) ==
  /\ "materials" \in DOMAIN d
  /\ itemName \in DOMAIN d.materials
  /\ ~("recipes" \in DOMAIN d /\ itemName \in DOMAIN d.recipes)

isMaterial(d, itemName) ==
  "materials" \in DOMAIN d /\ itemName \in DOMAIN d.materials

findRecipe(d, itemName) ==
  "recipes" \in DOMAIN d /\ itemName \in DOMAIN d.recipes

staminaCostSetting(d) == d.settings.stamina_cost

(***************************************************************************)
(* "new Set(visited)": the callee works on a copy, so the caller's set is  *)
(* the same after the call whatever the callee added to its own.           *)
(***************************************************************************)
newSetShared(visited, calleeSet) == calleeSet

newSet(visited, calleeSet) == visited

(***************************************************************************)
(* getStamina.  Result: val (always a number), visited (the state of the   *)
(* passed set after the call), trace (the <<name, set at entry>> of every  *)
(* getStamina call of the traversal).                                      *)
(***************************************************************************)
RECURSIVE getStamina(_, _, _, _)
RECURSIVE getStaminaLoop(_, _, _, _, _, _)

ownStaminaKeptAlways(d, recipe) == TRUE

ownStaminaKept(d, recipe) ==
  ~(d.settings.ignoreIntermediateStamina /\ Exempt(recipe))

getStamina(d, itemName, visited, conservationLevel) ==
  IF itemName \in visited
  THEN [val |-> 0, visited |-> visited, trace |-> {<<itemName, visited>>}]
  ELSE IF ~findRecipe(d, itemName)
  THEN [val |-> 0, visited |-> visited, trace |-> {<<itemName, visited>>}]
  ELSE LET recipe == d.recipes[itemName]
           currentItemStamina == recipe.stamina
           loop == getStaminaLoop(d, recipe, 1, currentItemStamina,
                                  visited \cup {itemName}, conservationLevel)
       IN  [val |-> IF ownStaminaKept(d, recipe)
                    THEN loop.val
                    ELSE loop.val - currentItemStamina,
            visited |-> loop.visited,
            trace |-> {<<itemName, visited>>} \cup loop.trace]

getStaminaLoop(d, recipe, i, totalStamina, visited, conservationLevel) ==
  IF i > Len(recipe.ingredients)
  THEN [val |-> totalStamina, visited |-> visited, trace |-> {}]
  ELSE LET ing == recipe.ingredients[i]
           sub == getStamina(d, ing.name, visited, conservationLevel)
           rest == getStaminaLoop(d, recipe, i + 1,
                     totalStamina
                       + sub.val * reducedCount(recipe, ing.count, conservationLevel),
                     newSet(visited, sub.visited), conservationLevel)
       IN  [rest EXCEPT !.trace = sub.trace \cup rest.trace]

(***************************************************************************)
(* The result of meeting a name that is already in the tracking set.       *)
(***************************************************************************)
circularAsZero(itemName) == Num(0)

circularDependency(itemName) == Err("circular_dependency", itemName)

(***************************************************************************)
(* getMaterialCost.  Result: res (Num or Err), visited, trace.             *)
(***************************************************************************)
RECURSIVE getMaterialCost(_, _, _, _)
RECURSIVE getMaterialCostLoop(_, _, _, _, _, _)

getMaterialCost(d, itemName, visited, conservationLevel) ==
  LET here == {<<itemName, visited>>}
  IN
  IF isMaterial(d, itemName)
  THEN [res |-> IF d.materials[itemName] <= 0
                THEN Err("material_price_missing", itemName)
                ELSE Num(d.materials[itemName]),
        visited |-> visited, trace |-> here]
  ELSE IF ~findRecipe(d, itemName)
  THEN [res |-> Err("item_not_found", itemName),
        visited |-> visited, trace |-> here]
  ELSE IF itemName \in visited
  THEN [res |-> circularDependency(itemName),
        visited |-> visited, trace |-> here]
  ELSE LET loop == getMaterialCostLoop(d, d.recipes[itemName], 1, 0,
                                       visited \cup {itemName}, conservationLevel)
       IN  [loop EXCEPT !.trace = here \cup loop.trace]

getMaterialCostLoop(d, recipe, i, cost, visited, conservationLevel) ==
  IF i > Len(recipe.ingredients)
  THEN [res |-> Num(cost), visited |-> visited, trace |-> {}]
  ELSE LET ing == recipe.ingredients[i]
           sub == getMaterialCost(d, ing.name, visited, conservationLevel)
           after == newSet(visited, sub.visited)
       IN  IF IsError(sub.res)
           THEN [res |-> sub.res, visited |-> after, trace |-> sub.trace]
           ELSE LET rest == getMaterialCostLoop(d, recipe, i + 1,
                              cost + sub.res.val
                                * reducedCount(recipe, ing.count, conservationLevel),
                              after, conservationLevel)
                IN  [rest EXCEPT !.trace = sub.trace \cup rest.trace]

(***************************************************************************)
(* getTotalCostIncludingStamina.                                           *)
(***************************************************************************)
RECURSIVE getTotalCostIncludingStamina(_, _, _, _)
RECURSIVE getTotalCostLoop(_, _, _, _, _, _)

effectiveStaminaForThisItem(d, itemName, conservationLevel) ==
  getStamina(d, itemName, {}, conservationLevel).val

getTotalCostIncludingStamina(d, itemName, visited, conservationLevel) ==
  LET here == {<<itemName, visited>>}
  IN
  IF isMaterial(d, itemName)
  THEN [res |-> IF d.materials[itemName] <= 0
                THEN Err("material_price_missing", itemName)
                ELSE Num(d.materials[itemName]),
        visited |-> visited, trace |-> here]
  ELSE IF ~findRecipe(d, itemName)
  THEN [res |-> Err("item_not_found", itemName),
        visited |-> visited, trace |-> here]
  ELSE IF itemName \in visited
  THEN [res |-> circularDependency(itemName),
        visited |-> visited, trace |-> here]
  ELSE LET loop == getTotalCostLoop(d, d.recipes[itemName], 1, 0,
                                    visited \cup {itemName}, conservationLevel)
       IN  IF IsError(loop.res)
           THEN [loop EXCEPT !.trace = here \cup loop.trace]
           ELSE [res |-> Num(loop.res.val
                             + effectiveStaminaForThisItem(d, itemName, conservationLevel)
                               * staminaCostSetting(d)),
                 visited |-> loop.visited,
                 trace |-> here \cup loop.trace]

getTotalCostLoop(d, recipe, i, cost, visited, conservationLevel) ==
  IF i > Len(recipe.ingredients)
  THEN [res |-> Num(cost), visited |-> visited, trace |-> {}]
  ELSE LET ing == recipe.ingredients[i]
           sub == getTotalCostIncludingStamina(d, ing.name, visited, conservationLevel)
           after == newSet(visited, sub.visited)
       IN  IF IsError(sub.res)
           THEN [res |-> sub.res, visited |-> after, trace |-> sub.trace]
           ELSE LET rest == getTotalCostLoop(d, recipe, i + 1,
                              cost + sub.res.val
                                * reducedCount(recipe, ing.count, conservationLevel),
                              after, conservationLevel)
                IN  [rest EXCEPT !.trace = sub.trace \cup rest.trace]

(***************************************************************************)
(* getReqCount: units required by the n-th delivery.                       *)
(***************************************************************************)
getReqCountEarlyStep(deliveryNumber) ==
  IF deliveryNumber <= 1 THEN 1
  ELSE IF deliveryNumber = 2 THEN 2
  ELSE IF deliveryNumber >= 3 /\ deliveryNumber < 10 THEN 3
  ELSE IF deliveryNumber >= 10 /\ deliveryNumber <= 20 THEN 5
  ELSE 10

getReqCountLastStepOne(deliveryNumber) ==
  IF deliveryNumber <= 1 THEN 1
  ELSE IF deliveryNumber = 2 THEN 2
  ELSE IF deliveryNumber >= 3 /\ deliveryNumber <= 10 THEN 3
  ELSE IF deliveryNumber >= 11 /\ deliveryNumber <= 20 THEN 5
  ELSE 1

getReqCountStepAt20(deliveryNumber) ==
  IF deliveryNumber <= 1 THEN 1
  ELSE IF deliveryNumber = 2 THEN 2
  ELSE IF deliveryNumber >= 3 /\ deliveryNumber <= 10 THEN 3
  ELSE IF deliveryNumber >= 11 /\ deliveryNumber < 20 THEN 5
  ELSE 10

getReqCount(deliveryNumber) ==
  IF deliveryNumber <= 1 THEN 1
  ELSE IF deliveryNumber = 2 THEN 2
  ELSE IF deliveryNumber >= 3 /\ deliveryNumber <= 10 THEN 3
  ELSE IF deliveryNumber >= 11 /\ deliveryNumber <= 20 THEN 5
  ELSE 10

RECURSIVE sumReqCount(_)
sumReqCount(n) == IF n <= 0 THEN 0 ELSE sumReqCount(n - 1) + getReqCount(n)

(***************************************************************************)
(* calcEfficiency                                                          *)
(***************************************************************************)
SearchCap == 50

milestonesWithFive == <<25, 20, 10, 5, 2, 1>>

milestones == <<25, 20, 10, 2, 1>>

Modes == {"default", "1", "2", "3", "5", "10", "4"}

deliveryMapLiteral ==
  [m \in {"1", "2", "3", "5", "10"} |->
     CASE m = "1" -> 1 [] m = "2" -> 2 [] m = "3" -> 3 [] m = "5" -> 5 [] m = "10" -> 10]

deliveryMap ==
  [m \in {"1", "2", "3", "5", "10"} |->
     CASE m = "1" -> 1 [] m = "2" -> 2 [] m = "3" -> 10 [] m = "5" -> 20 [] m = "10" -> 25]

\* x.toFixed(1) and x.toFixed(0) of a value in hundredths: tenths, units.
toFixed1(x) == RoundHalfUp(x, 10)

toFixed0(x) == RoundHalfUp(x, 100)

\* (totalProfit / totalCost).toFixed(3) in thousandths; cost in hundredths.
efficiencyFixed3(totalProfit, totalCost) ==
  IF totalCost > 0 THEN RoundHalfUp(100000 * totalProfit, totalCost) ELSE 0

\* the ratio taken upside down: totalCost / totalProfit >= efficiency_limit
meetsLimitInverted(totalProfit, totalCost, limit) ==
  totalCost >= limit * totalProfit

\* averageEfficiency >= efficiency_limit, with
\* averageEfficiency = totalCost > 0 ? totalProfit / totalCost : 0
meetsLimit(totalProfit, totalCost, limit) ==
  IF totalCost > 0
  THEN 10000 * totalProfit >= limit * totalCost
  ELSE 0 >= limit

\* The while loop of the best-achievable search: the final maxDeliveries.
RECURSIVE searchMaxDeliveries(_, _, _, _, _)
searchMaxDeliveries(unitCost, reward, limit, maxDeliveries, totalItemsForAvg) ==
  IF ~(maxDeliveries < SearchCap)
  THEN maxDeliveries
  ELSE LET currentDeliveryNum == maxDeliveries + 1
           items == totalItemsForAvg + getReqCount(currentDeliveryNum)
       IN  IF meetsLimit(reward * currentDeliveryNum, unitCost * items, limit)
           THEN searchMaxDeliveries(unitCost, reward, limit, maxDeliveries + 1, items)
           ELSE maxDeliveries

\* milestones.find(m => m <= maxDeliveries), for maxDeliveries >= 1
RECURSIVE findMilestone(_, _)
findMilestone(i, maxDeliveries) ==
  IF milestones[i] <= maxDeliveries THEN milestones[i]
  ELSE findMilestone(i + 1, maxDeliveries)

bestMilestone(maxDeliveries) == findMilestone(1, maxDeliveries)

settingsConservationLevel(d) ==
  IF "conservation_level" \in DOMAIN d.settings
  THEN d.settings.conservation_level ELSE 10

\* the mutant reports every failure as the generic error
ErrorResultGeneric(r) == [kind |-> "error", error |-> "generic_cost_error", name |-> ""]

ErrorResult(r) == [kind |-> "error", error |-> r.error, name |-> r.name]

\* unitCost === 0; the mutant has no such guard
zeroUnitCostUnchecked(unitCost) == FALSE

zeroUnitCost(unitCost) == unitCost = 0

Report(mode, recommend, hasRound, round, items, profit, nan, unitCost, consumedCoin, unitStamina) ==
  [kind |-> "result", mode |-> mode, recommend |-> recommend,
   hasRound |-> hasRound, round |-> round,
   totalItems |-> items, totalProfit |-> profit, profitIsNaN |-> nan,
   averageEfficiency |-> efficiencyFixed3(profit, unitCost * items),
   unitCost |-> toFixed1(unitCost),
   consumedCoin |-> toFixed1(consumedCoin * items),
   totalCost |-> toFixed0(unitCost * items),
   totalStamina |-> unitStamina * items]

calcEfficiency(d, itemName, reward, deliveryMode) ==
  LET conservationLevel == settingsConservationLevel(d)
      materialCostResult == getMaterialCost(d, itemName, {}, conservationLevel).res
      unitCostResult ==
        getTotalCostIncludingStamina(d, itemName, {}, conservationLevel).res
      consumedCoin == materialCostResult.val
      unitCost == unitCostResult.val
      unitStamina == getStamina(d, itemName, {}, conservationLevel).val
  IN
  IF IsError(materialCostResult) THEN ErrorResult(materialCostResult)
  ELSE IF IsError(unitCostResult) THEN ErrorResult(unitCostResult)
  ELSE IF zeroUnitCost(unitCost) THEN ErrorResult(Err("generic_cost_error", ""))
  ELSE IF deliveryMode = "default"
  THEN LET maxDeliveries ==
             searchMaxDeliveries(unitCost, reward, d.settings.efficiency_limit, 0, 0)
       IN  IF maxDeliveries = 0
           THEN Report(deliveryMode, FALSE, FALSE, 0, getReqCount(1),
                       reward * getReqCount(1), FALSE,
                       unitCost, consumedCoin, unitStamina)
           ELSE LET best == bestMilestone(maxDeliveries)
                IN  Report("default", TRUE, TRUE, best, sumReqCount(best),
                           reward * best, FALSE,
                           unitCost, consumedCoin, unitStamina)
  ELSE IF deliveryMode \in DOMAIN deliveryMap
  THEN LET maxDeliveries == deliveryMap[deliveryMode]
       IN  IF maxDeliveries = 0
           THEN [kind |-> "result", recommend |-> FALSE, msg |-> "calc_error"]
           ELSE Report(deliveryMode, TRUE, TRUE, maxDeliveries,
                       sumReqCount(maxDeliveries), reward * maxDeliveries, FALSE,
                       unitCost, consumedCoin, unitStamina)
  ELSE \* deliveryMap[deliveryMode] is undefined: the round is undefined,
       \* reward * undefined is NaN and no unit is summed
       Report(deliveryMode, TRUE, FALSE, 0, 0, 0, TRUE,
              unitCost, consumedCoin, unitStamina)

(***************************************************************************)
(* Datasets                                                                *)
(***************************************************************************)
SeqsUpTo(S, n) == UNION {[1..k -> S] : k \in 0..n}

DistinctSeqs(S, n) ==
  {s \in SeqsUpTo(S, n) : \A i, j \in 1..Len(s) : i # j => s[i] # s[j]}

\* the first ingredient is needed MaxCount times, the others once
Ingredients(names) ==
  [i \in 1..Len(names) |-> [name |-> names[i],
                            count |-> IF i = 1 THEN MaxCount ELSE 1]]

StaminaOf(n) ==
  CASE n = "A" -> StaminaUnit
    [] n = "B" -> StaminaUnit + 1
    [] OTHER -> StaminaUnit + 2

CategoryPatterns ==
  { [n \in Names |-> "other"],
    [n \in Names |-> IF n = "B" THEN "processed"
                     ELSE IF n = "C" THEN "weaving" ELSE "other"],
    [n \in Names |-> IF n = "A" THEN "processed"
                     ELSE IF n = "B" THEN "weaving" ELSE "other"] }

\* a choice is <<>> (no recipe of that name) or <<names of its ingredients>>
Choices(S, n) == {<<>>} \cup {<<names>> : names \in DistinctSeqs(S, n)}

RecipeTable(cat, ca, cb, cc) ==
  LET choice == [n \in {"A", "B", "C"} |->
                   IF n = "A" THEN ca ELSE IF n = "B" THEN cb ELSE cc]
  IN  [n \in {m \in {"A", "B", "C"} : choice[m] # <<>>} |->
         [category |-> cat[n], stamina |-> StaminaOf(n),
          ingredients |-> Ingredients(choice[n][1])]]

NoEntries == [n \in {} |-> 0]

MaterialTables ==
  { NoEntries,
    [n \in {"M"} |-> 0],
    [n \in {"M"} |-> MaxPrice],
    [n \in {"M", "B"} |-> IF n = "M" THEN MaxPrice ELSE OverlapPrice] }

Settings(staminaCost, limit, flag) ==
  [stamina_cost |-> staminaCost, efficiency_limit |-> limit,
   ignoreIntermediateStamina |-> flag]

Datasets ==
  { [materials |-> mt,
     recipes |-> RecipeTable(cat, ca, cb, cc),
     settings |-> Settings(MaxStaminaCost, 36, flag)] :
      mt \in MaterialTables, cat \in CategoryPatterns,
      ca \in Choices(Names, MaxIngredients),
      cb \in Choices({"A", "C", "M"}, 1),
      cc \in Choices({"A", "M"}, 1),
      flag \in BOOLEAN }

\* datasets of the optimizer runs: "A" is made of one "M", "C" costs nothing
OptPrices == {100, MaxPrice, 1000}

OptLimits == {30, 36, 60}

OptDatasets ==
  { [materials |-> [n \in {"M"} |-> p],
     recipes |-> [n \in {"A", "C"} |->
                    IF n = "A"
                    THEN [category |-> "other", stamina |-> StaminaUnit,
                          ingredients |-> <<[name |-> "M", count |-> 1]>>]
                    ELSE [category |-> "processed", stamina |-> 0,
                          ingredients |-> <<>>]],
     settings |-> s] :
      p \in OptPrices,
      s \in { Settings(sc, lim, FALSE) : sc \in {0, MaxStaminaCost}, lim \in OptLimits }
            \cup { [Settings(sc, 36, FALSE) EXCEPT !.stamina_cost = sc]
                     @@ [k \in {"conservation_level"} |-> lv] :
                       sc \in {0}, lv \in {0, 20} } }

\* datasets of the runs that call every entry point: no category is exempt
\* and the flag is off
ErrDatasets ==
  { [materials |-> mt,
     recipes |-> RecipeTable([n \in Names |-> "other"], ca, cb, cc),
     settings |-> Settings(MaxStaminaCost, 36, FALSE)] :
      mt \in MaterialTables,
      ca \in Choices(Names, MaxIngredients),
      cb \in Choices({"A", "C", "M"}, 1),
      cc \in Choices({"A", "M"}, 1) }

\* datasets of the conservation runs: "A" needs c "M" and c "B", "B" is a
\* recipe without ingredients; every conservation level is configured
MaxConsCount == 5

ConservationLevels == 0..20

ConsDatasets ==
  { [materials |-> [n \in {"M"} |-> MaxPrice],
     recipes |-> [n \in {"A", "B"} |->
                    IF n = "A"
                    THEN [category |-> cat, stamina |-> StaminaUnit,
                          ingredients |-> <<[name |-> "M", count |-> c],
                                            [name |-> "B", count |-> c]>>]
                    ELSE [category |-> "other", stamina |-> StaminaUnit + 1,
                          ingredients |-> <<>>]],
     settings |-> Settings(MaxStaminaCost, 36, FALSE)
                    @@ [k \in {"conservation_level"} |-> lv]] :
      cat \in Categories, c \in 1..MaxConsCount, lv \in ConservationLevels }

(***************************************************************************)
(* State machine                                                           *)
(***************************************************************************)
NoCall == [fn |-> "none"]

\* slotResults[idx] = null
NullResult == [kind |-> "null"]

ZeroSummary ==
  [counted |-> {}, totalCoin |-> 0, totalStamina |-> 0, totalNyan |-> 0,
   finalRatio |-> 0]

NoFile == [path |-> "none", ok |-> FALSE, parsable |-> FALSE, json |-> NoEntries]

\* let appData = {}; let slotResults = {}; no page is initialised, no grid
\* exists and the summary shows the zeros of the markup
Init ==
  /\ appData = NoEntries
  /\ phase = "loading"
  /\ call = NoCall
  /\ page = "none"
  /\ inputs = NoEntries
  /\ slotResults = NoEntries
  /\ summary = ZeroSummary
  /\ listenerAdded = FALSE
  /\ offered = NoFile

\* loadData: appData = jsonData
LoadData ==
  /\ phase = "loading"
  /\ \E jsonData \in Datasets : appData' = jsonData
  /\ phase' = "ready"
  /\ UNCHANGED <<call, uiVars>>

LoadOptData ==
  /\ phase = "loading"
  /\ \E jsonData \in OptDatasets : appData' = jsonData
  /\ phase' = "ready"
  /\ UNCHANGED <<call, uiVars>>

LoadErrData ==
  /\ phase = "loading"
  /\ \E jsonData \in ErrDatasets : appData' = jsonData
  /\ phase' = "ready"
  /\ UNCHANGED <<call, uiVars>>

LoadConsData ==
  /\ phase = "loading"
  /\ \E jsonData \in ConsDatasets : appData' = jsonData
  /\ phase' = "ready"
  /\ UNCHANGED <<call, uiVars>>

\* the levels a caller passes: those of Levels and the configured one
CallLevels ==
  Levels \cup (IF "conservation_level" \in DOMAIN appData.settings
               THEN {appData.settings.conservation_level} ELSE {})

\* the resolver and the optimizer hold no assignment to appData; the mutant
\* stores the default conservation level in the settings
appDataWithDefaultLevel(d) ==
  [d EXCEPT !.settings =
     [k \in DOMAIN d.settings \cup {"conservation_level"} |->
        IF k = "conservation_level" THEN settingsConservationLevel(d)
        ELSE d.settings[k]]]

appDataAfterCall(d) == d

CallGetMaterialCost ==
  /\ phase = "ready"
  /\ call = NoCall
  /\ \E itemName \in Names, level \in CallLevels :
       call' = [fn |-> "getMaterialCost", itemName |-> itemName, level |-> level,
                result |-> getMaterialCost(appData, itemName, {}, level)]
  /\ appData' = appDataAfterCall(appData)
  /\ UNCHANGED <<phase, uiVars>>

CallGetTotalCost ==
  /\ phase = "ready"
  /\ call = NoCall
  /\ \E itemName \in Names, level \in CallLevels :
       call' = [fn |-> "getTotalCostIncludingStamina", itemName |-> itemName,
                level |-> level,
                result |-> getTotalCostIncludingStamina(appData, itemName, {}, level)]
  /\ appData' = appDataAfterCall(appData)
  /\ UNCHANGED <<phase, uiVars>>

CallGetStamina ==
  /\ phase = "ready"
  /\ call = NoCall
  /\ \E itemName \in Names, level \in CallLevels :
       call' = [fn |-> "getStamina", itemName |-> itemName, level |-> level,
                result |-> getStamina(appData, itemName, {}, level)]
  /\ appData' = appDataAfterCall(appData)
  /\ UNCHANGED <<phase, uiVars>>

CallCalcEfficiency ==
  /\ phase = "ready"
  /\ call = NoCall
  /\ \E itemName \in Names, reward \in 1..MaxReward, mode \in Modes :
       call' = [fn |-> "calcEfficiency", itemName |-> itemName,
                reward |-> reward, mode |-> mode,
                result |-> calcEfficiency(appData, itemName, reward, mode)]
  /\ appData' = appDataAfterCall(appData)
  /\ UNCHANGED <<phase, uiVars>>

MaxDelivery == 60

\* the caller has taken the returned value
Return ==
  /\ call # NoCall
  /\ call' = NoCall
  /\ UNCHANGED <<appData, phase, uiVars>>

CallGetReqCount ==
  /\ phase = "ready"
  /\ call = NoCall
  /\ \E deliveryNumber \in 1..MaxDelivery :
       call' = [fn |-> "getReqCount", deliveryNumber |-> deliveryNumber,
                result |-> getReqCount(deliveryNumber)]
  /\ UNCHANGED <<appData, phase, uiVars>>

Next ==
  LoadData \/ CallGetMaterialCost \/ CallGetTotalCost \/ CallGetStamina \/ Return

Spec == Init /\ [][Next]_vars

NextOpt == LoadOptData \/ CallCalcEfficiency \/ CallGetReqCount \/ Return

SpecOpt == Init /\ [][NextOpt]_vars

NextAll ==
  \/ LoadErrData
  \/ CallGetMaterialCost
  \/ CallGetTotalCost
  \/ CallGetStamina
  \/ CallCalcEfficiency
  \/ Return

SpecAll == Init /\ [][NextAll]_vars

NextCons ==
  LoadConsData \/ CallGetMaterialCost \/ CallGetTotalCost \/ CallGetStamina \/ Return

SpecCons == Init /\ [][NextCons]_vars

(***************************************************************************)
(* Helpers of the properties                                               *)
(***************************************************************************)
\* the name is resolved as a recipe: it is no material and has a recipe
IsRecipe(d, n) == ~isMaterial(d, n) /\ findRecipe(d, n)

IngredientNames(d, n) ==
  {d.recipes[n].ingredients[i].name : i \in 1..Len(d.recipes[n].ingredients)}

FlagOff(d) == [d EXCEPT !.settings.ignoreIntermediateStamina = FALSE]

CalledCost == call.fn \in {"getMaterialCost", "getTotalCostIncludingStamina"}

CalledTotal == call.fn = "getTotalCostIncludingStamina"

CalledStamina == call.fn = "getStamina"

\* the ingredient graph as the cost functions walk it (a material is a leaf)
\* and as getStamina walks it (every name with a recipe is expanded)
CostGraph(d) ==
  [n \in Names |-> IF IsRecipe(d, n) THEN IngredientNames(d, n) ELSE {}]

RawGraph(d) ==
  [n \in Names |-> IF findRecipe(d, n) THEN IngredientNames(d, n) ELSE {}]

RECURSIVE Closure(_, _, _)
Closure(g, S, k) ==
  IF k = 0 THEN S ELSE Closure(g, S \cup UNION {g[x] : x \in S}, k - 1)

\* the names reachable from n in one step or more
Reach(g, n) == Closure(g, g[n], Cardinality(Names))

OnCycle(g, n) == n \in Reach(g, n)

Acyclic(g) == \A n \in Names : ~OnCycle(g, n)

\* the name fails on its own: no material, no recipe, or a price <= 0
Unknown(d, n) == ~isMaterial(d, n) /\ ~findRecipe(d, n)

Unpriced(d, n) == isMaterial(d, n) /\ d.materials[n] <= 0

RECURSIVE SeqSum(_)
SeqSum(s) == IF s = <<>> THEN 0 ELSE Head(s) + SeqSum(Tail(s))

Range(s) == {s[i] : i \in 1..Len(s)}

Paths == DistinctSeqs(Names, Cardinality(Names))

\* v is the set of the names of a path of g from root down to the caller of n
OwnPath(g, root, n, v) ==
  \E p \in Paths :
    /\ Range(p) = v
    /\ IF p = <<>> THEN n = root
       ELSE /\ p[1] = root
            /\ \A i \in 1..(Len(p) - 1) : p[i + 1] \in g[p[i]]
            /\ n \in g[p[Len(p)]]

\* the sum, over the ingredients of recipe n in order, of the effective
\* count times the value f gives to the ingredient
IngredientSum(d, n, level, f) ==
  LET recipe == d.recipes[n]
  IN  SeqSum([i \in 1..Len(recipe.ingredients) |->
                reducedCount(recipe, recipe.ingredients[i].count, level)
                  * f[recipe.ingredients[i].name]])

(***************************************************************************)
(* C1: with the exclude-intermediate-stamina flag off, the total cost of a *)
(* recipe that resolves is its material cost plus the monetary value of    *)
(* its stamina: every unit of stamina of the tree is charged exactly once. *)
(***************************************************************************)
C1_TotalChargesStaminaOnce ==
  ( /\ CalledTotal
    /\ IsRecipe(appData, call.itemName)
    /\ ~appData.settings.ignoreIntermediateStamina
    /\ ~IsError(call.result.res) )
  => call.result.res.val
       = getMaterialCost(appData, call.itemName, {}, call.level).res.val
         + getStamina(appData, call.itemName, {}, call.level).val
           * appData.settings.stamina_cost

(***************************************************************************)
(* C2 (as stated): materialCost and totalCost of a recipe that reaches     *)
(* itself return the error circular_dependency.                            *)
(***************************************************************************)
C2_CycleYieldsCircular ==
  (CalledCost /\ OnCycle(CostGraph(appData), call.itemName))
  => call.result.res.error = "circular_dependency"

(***************************************************************************)
(* C2 (amended): materialCost and totalCost of a recipe that reaches       *)
(* itself always return an error.  The error is circular_dependency when   *)
(* no name reachable from the recipe is unknown or an unpriced material;   *)
(* otherwise it may be the item_not_found or material_price_missing of     *)
(* such a reachable name, met before the cycle closes.                     *)
(***************************************************************************)
C2_CycleYieldsError ==
  (CalledCost /\ OnCycle(CostGraph(appData), call.itemName))
  => LET r == call.result.res
         below == Reach(CostGraph(appData), call.itemName)
     IN  /\ IsError(r)
         /\ r.name \in below
         /\ \/ r.error = "circular_dependency" /\ OnCycle(CostGraph(appData), r.name)
            \/ r.error = "item_not_found" /\ Unknown(appData, r.name)
            \/ r.error = "material_price_missing" /\ Unpriced(appData, r.name)
         /\ (\A x \in below : ~Unknown(appData, x) /\ ~Unpriced(appData, x))
              => r.error = "circular_dependency"

\* a two-recipe cycle was queried and reported as circular
C2_Witness ==
  /\ CalledTotal
  /\ OnCycle(CostGraph(appData), call.itemName)
  /\ call.itemName \notin CostGraph(appData)[call.itemName]
  /\ call.result.res.error = "circular_dependency"

(***************************************************************************)
(* C3: stamina(name) is not a number when the subtree of name contains a   *)
(* cycle or a name that is neither a material nor a recipe.                *)
(***************************************************************************)
BadSubtree(d, n) ==
  /\ findRecipe(d, n)
  /\ \E x \in Reach(RawGraph(d), n) : OnCycle(RawGraph(d), x) \/ Unknown(d, x)

C3_StaminaFailsOnBadSubtree ==
  (CalledStamina /\ BadSubtree(appData, call.itemName))
  => call.result.val \notin Int

(***************************************************************************)
(* C4: in a dataset without cycles, where an ingredient may be reached     *)
(* through several branches, no resolution reports circular_dependency,    *)
(* the tracking set at the entry of every recursive call is exactly the    *)
(* set of names on the path from the queried item to that call, and the    *)
(* value of a recipe is the sum over its ingredients of effective count    *)
(* times the ingredient's own value (one contribution per branch).         *)
(***************************************************************************)
C4_DiamondResolvesPerBranch ==
  (call.fn # "none" /\ Acyclic(RawGraph(appData)))
  => LET root == call.itemName
         L == call.level
         d == appData
     IN  /\ CalledCost =>
               /\ call.result.res.error # "circular_dependency"
               /\ \A e \in call.result.trace :
                     OwnPath(CostGraph(d), root, e[1], e[2])
         /\ (call.fn = "getMaterialCost" /\ IsRecipe(d, root)
               /\ ~IsError(call.result.res)) =>
               call.result.res.val =
                 IngredientSum(d, root, L,
                   [n \in Names |-> getMaterialCost(d, n, {}, L).res.val])
         /\ (CalledTotal /\ IsRecipe(d, root) /\ ~IsError(call.result.res)) =>
               call.result.res.val =
                 IngredientSum(d, root, L,
                   [n \in Names |->
                      getTotalCostIncludingStamina(d, n, {}, L).res.val])
                 + getStamina(d, root, {}, L).val * d.settings.stamina_cost
         /\ CalledStamina =>
               /\ \A e \in call.result.trace :
                     OwnPath(RawGraph(d), root, e[1], e[2])
               /\ findRecipe(d, root) =>
                    call.result.val =
                      (IF ownStaminaKept(d, d.recipes[root])
                       THEN d.recipes[root].stamina ELSE 0)
                      + IngredientSum(d, root, L,
                          [n \in Names |-> getStamina(d, n, {}, L).val])

\* a material cost was computed for an item that reaches the same recipe
\* through two different paths
C4_Witness ==
  /\ call.fn = "getMaterialCost"
  /\ Acyclic(RawGraph(appData))
  /\ ~IsError(call.result.res)
  /\ call.result.res.val > 0
  /\ \E e1, e2 \in call.result.trace :
        /\ e1[1] = e2[1]
        /\ e1[2] # e2[2]
        /\ IsRecipe(appData, e1[1])

(***************************************************************************)
(* C9 (as stated): for a recipe with no ingredients, under every settings  *)
(* configuration, the total cost is stamina * stamina_cost and the stamina *)
(* is the recipe's stamina.                                                *)
(***************************************************************************)
LeafCalled ==
  /\ call.fn # "none"
  /\ IsRecipe(appData, call.itemName)
  /\ appData.recipes[call.itemName].ingredients = <<>>

C9_LeafRecipeAnySettings ==
  LeafCalled
  => LET own == appData.recipes[call.itemName].stamina
     IN  /\ CalledTotal => call.result.res = Num(own * appData.settings.stamina_cost)
         /\ CalledStamina => call.result.val = own

(***************************************************************************)
(* C9 (amended): for a recipe with no ingredients the total cost is        *)
(* stamina * stamina_cost and the stamina is the recipe's stamina, unless  *)
(* the exclude-intermediate-stamina flag is on and the recipe's category   *)
(* is exempt (processed, weaving): then both are 0.                        *)
(***************************************************************************)
C9_LeafRecipe ==
  LeafCalled
  => LET recipe == appData.recipes[call.itemName]
         excluded == /\ appData.settings.ignoreIntermediateStamina
                     /\ recipe.category \in {"processed", "weaving"}
         own == IF excluded THEN 0 ELSE recipe.stamina
     IN  /\ CalledTotal => call.result.res = Num(own * appData.settings.stamina_cost)
         /\ CalledStamina => call.result.val = own
         /\ call.fn = "getMaterialCost" => call.result.res = Num(0)

\* the total cost of an exempt leaf recipe was computed with the flag on
C9_Witness ==
  /\ LeafCalled
  /\ CalledTotal
  /\ appData.settings.ignoreIntermediateStamina
  /\ appData.recipes[call.itemName].category = "weaving"
  /\ appData.recipes[call.itemName].stamina > 0
  /\ call.result.res = Num(0)

(***************************************************************************)
(* C10 (as stated): with the flag on, the stamina of a recipe of an exempt *)
(* category is its flag-off stamina minus only its own stamina.            *)
(***************************************************************************)
ExemptCalled ==
  /\ CalledStamina
  /\ findRecipe(appData, call.itemName)
  /\ appData.settings.ignoreIntermediateStamina
  /\ appData.recipes[call.itemName].category \in {"processed", "weaving"}

C10_OnlyOwnStaminaRemoved ==
  ExemptCalled
  => call.result.val =
       getStamina(FlagOff(appData), call.itemName, {}, call.level).val
         - appData.recipes[call.itemName].stamina

(***************************************************************************)
(* C10 (amended): with the flag on, the stamina of a recipe of an exempt   *)
(* category is the sum of its ingredients' contributions computed with the *)
(* flag on (an ingredient that is itself an exempt recipe contributes      *)
(* without its own stamina); it equals the flag-off stamina minus the      *)
(* recipe's own stamina when no exempt-category recipe is reachable        *)
(* through its ingredients.                                                *)
(***************************************************************************)
C10_OwnStaminaRemovedAtEveryExemptLevel ==
  ExemptCalled
  => LET d == appData
         root == call.itemName
         L == call.level
     IN  /\ call.result.val =
               IngredientSum(d, root, L,
                 [n \in Names |-> getStamina(d, n, {root}, L).val])
         /\ (\A x \in Reach(RawGraph(d), root) :
                ~(findRecipe(d, x)
                    /\ d.recipes[x].category \in {"processed", "weaving"}))
             => call.result.val =
                  getStamina(FlagOff(d), root, {}, L).val - d.recipes[root].stamina

\* the stamina of a weaving recipe made of a non-exempt recipe, flag on
C10_Witness ==
  /\ ExemptCalled
  /\ appData.recipes[call.itemName].category = "weaving"
  /\ call.result.val > 0
  /\ \A x \in Reach(RawGraph(appData), call.itemName) :
        ~(findRecipe(appData, x)
            /\ appData.recipes[x].category \in {"processed", "weaving"})

(***************************************************************************)
(* Helpers of the optimizer properties                                     *)
(***************************************************************************)
CalledCalc == call.fn = "calcEfficiency"

\* calcEfficiency returned figures in best-achievable mode
CalcDefault ==
  /\ CalledCalc
  /\ call.mode = "default"
  /\ call.result.kind = "result"

UnitCost ==
  getTotalCostIncludingStamina(appData, call.itemName, {},
                               settingsConservationLevel(appData)).res.val

Limit == appData.settings.efficiency_limit

\* requiredUnits, as the table of the specification
RequiredUnits(i) ==
  CASE i = 1 -> 1
    [] i = 2 -> 2
    [] i \in 3..10 -> 3
    [] i \in 11..20 -> 5
    [] OTHER -> 10

CumulativeUnits(n) == SeqSum([i \in 1..n |-> RequiredUnits(i)])

\* (reward * i) / (unitCost * cumulative units) >= threshold, the unit cost
\* in hundredths of a coin and the threshold in hundredths
Satisfies(unitCost, reward, limit, i) ==
  10000 * reward * i >= limit * unitCost * CumulativeUnits(i)

\* the largest n in 0..50 with every count 1..n satisfying the threshold
MaxSatisfying(unitCost, reward, limit) ==
  CHOOSE n \in 0..50 :
    /\ \A i \in 1..n : Satisfies(unitCost, reward, limit, i)
    /\ n < 50 => ~Satisfies(unitCost, reward, limit, n + 1)

(***************************************************************************)
(* C5 (as stated): best-achievable mode, unit cost 1, reward 1, threshold  *)
(* 0.3: the cumulative efficiency is at least 0.3 through delivery 25 and  *)
(* the result recommends round 25 with the units of deliveries 1..25.      *)
(***************************************************************************)
C5Case ==
  /\ CalcDefault
  /\ UnitCost = 100
  /\ call.reward = 1
  /\ Limit = 30

C5_SnapsToRound25 ==
  C5Case
  => /\ \A i \in 1..25 : Satisfies(100, 1, 30, i)
     /\ call.result.recommend
     /\ call.result.hasRound /\ call.result.round = 25
     /\ call.result.totalItems = CumulativeUnits(25)

(***************************************************************************)
(* C5 (amended): best-achievable mode, unit cost 1, reward 1, threshold    *)
(* 0.3: the cumulative efficiency is at least 0.3 through delivery 13 and  *)
(* below it at delivery 14 (14/47), and the result recommends round 10     *)
(* with totalItems 27, the units of deliveries 1..10.                      *)
(***************************************************************************)
C5_SnapsToRound10 ==
  C5Case
  => /\ \A i \in 1..13 : Satisfies(100, 1, 30, i)
     /\ ~Satisfies(100, 1, 30, 14)
     /\ call.result.recommend
     /\ call.result.hasRound /\ call.result.round = 10
     /\ call.result.totalItems = 27
     /\ call.result.totalItems = CumulativeUnits(10)
     /\ call.result.totalProfit = 10

C5_Witness == C5Case /\ call.result.recommend /\ call.result.round = 10

(***************************************************************************)
(* C6: best-achievable mode: when the largest count maxDeliveries in 0..50 *)
(* whose counts all satisfy the threshold is at least 1, the result is     *)
(* recommended and its round is the largest of 25, 20, 10, 2, 1 that is at *)
(* most maxDeliveries (3..9 gives 2, 10..19 gives 10, 20..24 gives 20,     *)
(* 25..50 gives 25).                                                       *)
(***************************************************************************)
SnapDown(m) ==
  CHOOSE c \in {25, 20, 10, 2, 1} :
    c <= m /\ \A c2 \in {25, 20, 10, 2, 1} : c2 <= m => c2 <= c

C6_SnapsToLargestMilestone ==
  (CalcDefault /\ MaxSatisfying(UnitCost, call.reward, Limit) >= 1)
  => LET m == MaxSatisfying(UnitCost, call.reward, Limit)
     IN  /\ call.result.recommend
         /\ call.result.hasRound
         /\ call.result.round = SnapDown(m)
         /\ m \in 3..9 => call.result.round = 2
         /\ m \in 10..19 => call.result.round = 10
         /\ m \in 20..24 => call.result.round = 20
         /\ m \in 25..50 => call.result.round = 25

\* a search that stopped between two milestones was snapped down to 2
C6_Witness ==
  /\ CalcDefault
  /\ MaxSatisfying(UnitCost, call.reward, Limit) \in 5..9
  /\ call.result.round = 2

(***************************************************************************)
(* C7: best-achievable mode: when reward / unitCost is below the threshold *)
(* the result is not recommended, carries no round, and its totals are     *)
(* those of one delivery: totalItems = 1 and totalProfit = reward.         *)
(***************************************************************************)
C7_FirstDeliveryFails ==
  (CalcDefault /\ 10000 * call.reward < Limit * UnitCost)
  => /\ ~call.result.recommend
     /\ ~call.result.hasRound
     /\ call.result.totalItems = 1
     /\ call.result.totalProfit = call.reward

\* unit cost 10, reward 5, threshold 0.6
C7_Witness ==
  /\ CalcDefault
  /\ UnitCost = 1000 /\ call.reward = 5 /\ Limit = 60
  /\ ~call.result.recommend
  /\ call.result.averageEfficiency = 500

(***************************************************************************)
(* C8: fixed-simulation mode: the labels 1, 2, 3, 5, 10 stand for 1, 2,    *)
(* 10, 20, 25 deliveries; the result is recommended, its round is the      *)
(* mapped count, its totalItems the units of deliveries 1..count, and the  *)
(* whole result is the same under every threshold.                         *)
(***************************************************************************)
LabelCount(mode) ==
  CASE mode = "1" -> 1 [] mode = "2" -> 2 [] mode = "3" -> 10
    [] mode = "5" -> 20 [] mode = "10" -> 25

CalcFixed ==
  /\ CalledCalc
  /\ call.mode \in {"1", "2", "3", "5", "10"}
  /\ call.result.kind = "result"

C8_FixedModeIgnoresThreshold ==
  CalcFixed
  => /\ call.result.recommend
     /\ call.result.hasRound
     /\ call.result.round = LabelCount(call.mode)
     /\ call.result.totalItems = CumulativeUnits(LabelCount(call.mode))
     /\ call.result.totalProfit = call.reward * LabelCount(call.mode)
     /\ \A lim \in OptLimits \cup {0, 1000} :
           calcEfficiency([appData EXCEPT !.settings.efficiency_limit = lim],
                          call.itemName, call.reward, call.mode) = call.result

\* label "3" reported 10 deliveries where the best-achievable mode advises
\* against any delivery
C8_Witness ==
  /\ CalcFixed
  /\ call.mode = "3"
  /\ call.result.round = 10
  /\ call.result.totalItems = 27
  /\ ~calcEfficiency(appData, call.itemName, call.reward, "default").recommend

(***************************************************************************)
(* C11: whenever materialCost or totalCost of the queried item fails,      *)
(* calcEfficiency returns exactly that error (same kind, same name): the   *)
(* failure of the first failing node met walking the ingredients in order, *)
(* depth first; a failing ingredient aborts the sum even when the          *)
(* ingredients before it resolve, and no numeric result is returned.       *)
(***************************************************************************)
RECURSIVE FirstFailure(_, _, _)
RECURSIVE FirstFailureAmong(_, _, _, _)

\* <<kind, name>> of the first failure of a depth-first walk, <<>> if none
FirstFailure(d, n, path) ==
  IF n \in DOMAIN d.materials
  THEN IF d.materials[n] <= 0 THEN <<"material_price_missing", n>> ELSE <<>>
  ELSE IF n \notin DOMAIN d.recipes THEN <<"item_not_found", n>>
  ELSE IF n \in path THEN <<"circular_dependency", n>>
  ELSE FirstFailureAmong(d, d.recipes[n].ingredients, 1, path \cup {n})

FirstFailureAmong(d, ings, i, path) ==
  IF i > Len(ings) THEN <<>>
  ELSE LET f == FirstFailure(d, ings[i].name, path)
       IN  IF f # <<>> THEN f ELSE FirstFailureAmong(d, ings, i + 1, path)

C11_ErrorReturnedVerbatim ==
  CalledCalc
  => LET level == settingsConservationLevel(appData)
         material == getMaterialCost(appData, call.itemName, {}, level).res
         total == getTotalCostIncludingStamina(appData, call.itemName, {}, level).res
         first == FirstFailure(appData, call.itemName, {})
     IN  /\ (IsError(material) \/ IsError(total)) <=> first # <<>>
         /\ first # <<>> =>
              /\ call.result = [kind |-> "error", error |-> first[1], name |-> first[2]]
              /\ IsError(material)
              /\ call.result.error = material.error
              /\ call.result.name = material.name

\* "A" needs a priced material and then a recipe whose own ingredient is
\* unknown: the unknown name is reported
C11_Witness ==
  /\ CalledCalc
  /\ call.itemName = "A"
  /\ call.result.kind = "error"
  /\ call.result.error = "item_not_found"
  /\ "A" \in DOMAIN appData.recipes
  /\ Len(appData.recipes["A"].ingredients) = 2
  /\ call.result.name \notin IngredientNames(appData, "A")
  /\ LET first == appData.recipes["A"].ingredients[1].name
     IN  first \in DOMAIN appData.materials /\ appData.materials[first] > 0

(***************************************************************************)
(* C12: materialCost and totalCost of a material name return its price     *)
(* when the price is > 0 and material_price_missing with the material's    *)
(* name when it is <= 0, also when a recipe of the same name exists.       *)
(***************************************************************************)
C12_MaterialResolvedFirst ==
  (CalledCost /\ call.itemName \in DOMAIN appData.materials)
  => LET price == appData.materials[call.itemName]
     IN  call.result.res =
           IF price > 0 THEN Num(price)
           ELSE Err("material_price_missing", call.itemName)

\* the total cost of a name that is both a material and a recipe
C12_Witness ==
  /\ CalledTotal
  /\ call.itemName \in DOMAIN appData.materials
  /\ call.itemName \in DOMAIN appData.recipes
  /\ call.result.res = Num(appData.materials[call.itemName])

(***************************************************************************)
(* C13 (as stated): at conservation level L in 0..20 an ingredient of raw  *)
(* count c counts as round-half-up(c * (20 - L) / 20) outside the two      *)
(* exempt categories and as c inside them, per ingredient, before the      *)
(* multiplication and the sum; level 0 changes nothing, level 20 gives 0,  *)
(* no count is negative, and materialCost, totalCost and stamina use the   *)
(* same count.  Recipe "A" has the ingredients M (a material) and B (a     *)
(* recipe without ingredients), each with the count c.                     *)
(***************************************************************************)
ExactCount(category, c, level) ==
  IF category \in {"processed", "weaving"} THEN c
  ELSE (2 * c * (20 - level) + 20) \div 40

ConsCase ==
  /\ call # NoCall
  /\ call.fn \in {"getMaterialCost", "getTotalCostIncludingStamina", "getStamina"}
  /\ call.itemName = "A"
  /\ call.level \in 0..20

C13_CountsRoundHalfUp ==
  ConsCase
  => LET recipe == appData.recipes["A"]
         c == recipe.ingredients[1].count
         n == ExactCount(recipe.category, c, call.level)
         price == appData.materials["M"]
         staminaOfB == appData.recipes["B"].stamina
         staminaCost == appData.settings.stamina_cost
         stamina == recipe.stamina + n * staminaOfB
     IN  /\ n >= 0
         /\ call.level = 0 => n = c
         /\ (call.level = 20 /\ recipe.category \notin {"processed", "weaving"}) => n = 0
         /\ call.fn = "getMaterialCost" => call.result.res = Num(n * price)
         /\ call.fn = "getStamina" => call.result.val = stamina
         /\ call.fn = "getTotalCostIncludingStamina" =>
              call.result.res =
                Num(n * price + n * (staminaOfB * staminaCost) + stamina * staminaCost)

(***************************************************************************)
(* C14: getReqCount is 1 at delivery 1, 2 at delivery 2, 3 for deliveries  *)
(* 3..10, 5 for deliveries 11..20 and 10 from delivery 21 on, and it never *)
(* decreases from one delivery to the next.                                *)
(***************************************************************************)
CalledReqCount == call.fn = "getReqCount"

C14_RequiredUnitsTable ==
  CalledReqCount
  => LET i == call.deliveryNumber
     IN  /\ i = 1 => call.result = 1
         /\ i = 2 => call.result = 2
         /\ i \in 3..10 => call.result = 3
         /\ i \in 11..20 => call.result = 5
         /\ i >= 21 => call.result = 10
         /\ i > 1 => getReqCount(i - 1) <= call.result

\* the first delivery of the last step of the table
C14_Witness ==
  /\ CalledReqCount
  /\ call.deliveryNumber = 21
  /\ call.result = 10

(***************************************************************************)
(* C16: a call of getMaterialCost, getTotalCostIncludingStamina,           *)
(* getStamina or calcEfficiency, with any item, reward and mode, failing   *)
(* or not, leaves materials, recipes and settings as they were.            *)
(***************************************************************************)
C16_CallsLeaveDatasetAlone ==
  [][(call = NoCall /\ call' # NoCall) => appData' = appData]_vars

\* a failed evaluation on a dataset whose settings carry no conservation
\* level: no default was written into the settings
C16_Witness ==
  /\ CalledCalc
  /\ call.result.kind = "error"
  /\ DOMAIN appData = {"materials", "recipes", "settings"}
  /\ "conservation_level" \notin DOMAIN appData.settings

(***************************************************************************)
(* C17 (as stated): the totals calcEfficiency returns are the exact        *)
(* products: totalCost = unitCost * totalItems, consumedCoin = unit        *)
(* material cost * totalItems, totalStamina = unit stamina * totalItems,   *)
(* totalProfit = reward * round, averageEfficiency = totalProfit /         *)
(* totalCost, none of them rounded.  The returned totalCost is in coins,   *)
(* consumedCoin in tenths, averageEfficiency in thousandths; the unit      *)
(* costs are in hundredths.                                                *)
(***************************************************************************)
CalcRound ==
  /\ CalledCalc
  /\ call.result.kind = "result"
  /\ "hasRound" \in DOMAIN call.result
  /\ call.result.hasRound

UnitMaterialCost ==
  getMaterialCost(appData, call.itemName, {},
                  settingsConservationLevel(appData)).res.val

UnitStamina ==
  getStamina(appData, call.itemName, {}, settingsConservationLevel(appData)).val

C17_TotalsUnrounded ==
  CalcRound
  => LET r == call.result
     IN  /\ 100 * r.totalCost = UnitCost * r.totalItems
         /\ 10 * r.consumedCoin = UnitMaterialCost * r.totalItems
         /\ r.totalStamina = UnitStamina * r.totalItems
         /\ r.totalProfit = call.reward * r.round
         /\ r.averageEfficiency * (UnitCost * r.totalItems) = 100000 * r.totalProfit

(***************************************************************************)
(* C18: when the item resolves and its unit total cost is exactly 0,       *)
(* calcEfficiency returns generic_cost_error in every mode: no figure,     *)
(* hence no quotient by the cost, is produced.                             *)
(***************************************************************************)
C18Case ==
  /\ CalledCalc
  /\ ~IsError(getMaterialCost(appData, call.itemName, {},
                              settingsConservationLevel(appData)).res)
  /\ LET total == getTotalCostIncludingStamina(appData, call.itemName, {},
                                               settingsConservationLevel(appData)).res
     IN  ~IsError(total) /\ total.val = 0

C18_ZeroCostIsGenericError ==
  C18Case
  => call.result = [kind |-> "error", error |-> "generic_cost_error", name |-> ""]

\* a recipe with an ingredient of positive price whose count is rounded to 0
\* at conservation level 20 and whose stamina is worth nothing, fixed mode
C18_Witness ==
  /\ C18Case
  /\ call.mode = "5"
  /\ Len(appData.recipes[call.itemName].ingredients) > 0
  /\ appData.settings.stamina_cost = 0
  /\ call.result.error = "generic_cost_error"

(***************************************************************************)
(* C19: in best-achievable mode a recommended result satisfies the         *)
(* threshold at the reported round, reward * round / (unitCost * units of  *)
(* deliveries 1..round) >= efficiency_limit; the ratio i / (units of       *)
(* deliveries 1..i) never increases over 1..50, so no count after the      *)
(* first failing one satisfies the threshold.                              *)
(***************************************************************************)
C19_RecommendedMeetsThreshold ==
  /\ (CalcDefault /\ call.result.recommend)
     => /\ UnitCost > 0
        /\ Satisfies(UnitCost, call.reward, Limit, call.result.round)
        /\ \A i \in 1..SearchCap :
             Satisfies(UnitCost, call.reward, Limit, i)
             => i <= MaxSatisfying(UnitCost, call.reward, Limit)
  /\ CalledCalc
     => \A i \in 1..(SearchCap - 1) :
          (i + 1) * sumReqCount(i) <= i * sumReqCount(i + 1)

\* the search stopped before the cap and a milestone below it is reported
C19_Witness ==
  /\ CalcDefault
  /\ call.result.recommend
  /\ call.result.round = 10
  /\ MaxSatisfying(UnitCost, call.reward, Limit) \in 11..19
  /\ ~Satisfies(UnitCost, call.reward, Limit,
                MaxSatisfying(UnitCost, call.reward, Limit) + 1)

(***************************************************************************)
(* The pages: loading, the calculator's slots and summary, the editor's    *)
(* file input.  The grid has NumSlots slots (8 in the source).  A reward   *)
(* of 0 stands for every input that parseFloat does not read as a positive *)
(* number (empty, text, zero, negative).                                   *)
(***************************************************************************)
NumSlots == 2

Pages == {"calculator", "editor"}

SlotNames == {"", "A"}

SlotRewards == {0, MaxReward}

SlotModes == {"default", "2"}

EmptyInput == [name |-> "", reward |-> 0, mode |-> "default"]

\* the objects a data.json or a selected file can hold: a well-formed
\* dataset and the same with one top-level field left out
FullDataset(price) ==
  [materials |-> [n \in {"M"} |-> price],
   recipes |-> [n \in {"A"} |->
                  [category |-> "other", stamina |-> StaminaUnit,
                   ingredients |-> <<[name |-> "M", count |-> 1]>>]],
   settings |-> Settings(MaxStaminaCost, 36, FALSE)]

Without(d, field) == [k \in DOMAIN d \ {field} |-> d[k]]

JsonObjects ==
  {FullDataset(100)}
    \cup {Without(FullDataset(100), f) : f \in {"materials", "recipes", "settings"}}

\* a selected file: its text parses to an object or JSON.parse throws
Files ==
  {[ok |-> TRUE, parsable |-> TRUE, json |-> j] : j \in JsonObjects}
    \cup {[ok |-> TRUE, parsable |-> FALSE, json |-> NoEntries]}

\* fetch('./data.json'): a response that is not ok (or no response), or a file
Responses == Files \cup {[ok |-> FALSE, parsable |-> FALSE, json |-> NoEntries]}

\* the values of the settings inputs a handler reads: the work-life-balance
\* select ('custom' or a level), the stamina cost, the limit, the level
InputSettings ==
  {[wlb |-> w, staminaCost |-> MaxStaminaCost, efficiencyLimit |-> 36,
    conservationLevel |-> 0, ignore |-> FALSE] : w \in {"custom", "2"}}

parseIntWlb(w) == CASE w = "2" -> 2 [] OTHER -> 0

\* calculateStaminaCost, in hundredths: 99999 or (1000 / (13 * (wlb - 1))).toFixed(2)
calculateStaminaCost(wlbLevel) ==
  IF wlbLevel <= 1 THEN 9999900
  ELSE IF 13 * (wlbLevel - 1) <= 0 THEN 9999900
  ELSE RoundHalfUp(100000, 13 * (wlbLevel - 1))

\* json.materials && json.recipes && json.settings
hasStructure(json) ==
  /\ "materials" \in DOMAIN json
  /\ "recipes" \in DOMAIN json
  /\ "settings" \in DOMAIN json

\* the settings fields initCalculator and updateSettings assign from the inputs
settingsWritten(in) ==
  (IF in.wlb # "custom"
   THEN [wlb_level |-> parseIntWlb(in.wlb),
         stamina_cost |-> calculateStaminaCost(parseIntWlb(in.wlb))]
   ELSE [stamina_cost |-> IF in.staminaCost > 0 THEN in.staminaCost ELSE 9999900])
  @@ [efficiency_limit |-> IF in.efficiencyLimit # 0 THEN in.efficiencyLimit ELSE 36,
      conservation_level |-> in.conservationLevel,
      ignoreIntermediateStamina |-> in.ignore]

\* if (!appData.settings) appData.settings = {}; then the assignments
withSettings(d, in) ==
  LET old == IF "settings" \in DOMAIN d THEN d.settings ELSE NoEntries
      new == settingsWritten(in) @@ old
  IN  [k \in DOMAIN d \cup {"settings"} |-> IF k = "settings" THEN new ELSE d[k]]

\* name && !isNaN(reward) && reward > 0
validInput(in) == in.name # "" /\ in.reward > 0

\* recalculateAllSlots: a slot with valid inputs gets a new stored result,
\* the stored result of every other slot stays
recalculateAllSlots(d, inp, sr) ==
  LET valid == {i \in DOMAIN inp : validInput(inp[i])}
  IN  [i \in DOMAIN sr \cup valid |->
         IF i \in valid
         THEN calcEfficiency(d, inp[i].name, inp[i].reward, inp[i].mode)
         ELSE sr[i]]

RECURSIVE SumOver(_, _)
SumOver(f, S) ==
  IF S = {} THEN 0
  ELSE LET i == CHOOSE x \in S : TRUE IN f[i] + SumOver(f, S \ {i})

\* updateTotalSummary: the stored results with res && res.recommend are
\* added up (coin in tenths, the ratio in thousandths)
updateTotalSummary(d, sr) ==
  LET S == {i \in DOMAIN sr : sr[i].kind = "result" /\ sr[i].recommend}
      totalCoin == SumOver([i \in S |-> sr[i].consumedCoin], S)
      totalStamina == SumOver([i \in S |-> sr[i].totalStamina], S)
      totalNyan ==
        SumOver([i \in S |-> IF sr[i].profitIsNaN THEN 0 ELSE sr[i].totalProfit], S)
      staminaCost ==
        IF "stamina_cost" \in DOMAIN d.settings THEN d.settings.stamina_cost ELSE 0
  IN  [counted |-> S, totalCoin |-> totalCoin, totalStamina |-> totalStamina,
       totalNyan |-> totalNyan,
       finalRatio |-> efficiencyFixed3(totalNyan, 10 * totalCoin + totalStamina * staminaCost)]

\* container.innerHTML = '' and createSlot(1..NumSlots): empty inputs
newGrid == [i \in 1..NumSlots |-> EmptyInput]

\* DOMContentLoaded: loadData (the fetched object is assigned as it is; the
\* file input of the calculator gets its listener when nothing was loaded),
\* then initCalculator or initEditor
DOMContentLoaded ==
  /\ phase = "loading"
  /\ \E pg \in Pages, response \in Responses, in \in InputSettings :
       LET dataLoaded == response.ok /\ response.parsable
           jsonData == IF dataLoaded THEN response.json ELSE appData
           d == IF pg = "calculator" THEN withSettings(jsonData, in) ELSE jsonData
           sr == recalculateAllSlots(d, newGrid, slotResults)
       IN  /\ appData' = d
           /\ page' = pg
           /\ listenerAdded' = (~dataLoaded /\ pg = "calculator")
           /\ offered' = [path |-> "fetch", ok |-> response.ok,
                          parsable |-> response.parsable, json |-> response.json]
           /\ IF pg = "calculator"
              THEN /\ inputs' = newGrid
                   /\ slotResults' = sr
                   /\ summary' = updateTotalSummary(d, sr)
              ELSE UNCHANGED <<inputs, slotResults, summary>>
  /\ phase' = "ready"
  /\ UNCHANGED call

\* change of calcFileInput: processJsonFile, then appData = json and
\* initCalculator(), which builds the grid again and recalculates
SelectCalcFile ==
  /\ phase = "ready"
  /\ page = "calculator"
  /\ listenerAdded
  /\ \E file \in Files, in \in InputSettings :
       /\ offered' = [path |-> "calcFileInput", ok |-> TRUE,
                      parsable |-> file.parsable, json |-> file.json]
       /\ IF file.parsable /\ hasStructure(file.json)
          THEN LET d == withSettings(file.json, in)
                   sr == recalculateAllSlots(d, newGrid, slotResults)
               IN  /\ appData' = d
                   /\ inputs' = newGrid
                   /\ slotResults' = sr
                   /\ summary' = updateTotalSummary(d, sr)
          ELSE UNCHANGED <<appData, inputs, slotResults, summary>>
  /\ UNCHANGED <<phase, call, page, listenerAdded>>

\* change of fileInput on the editor page: processJsonFile, appData = json
SelectEditorFile ==
  /\ phase = "ready"
  /\ page = "editor"
  /\ \E file \in Files :
       /\ offered' = [path |-> "fileInput", ok |-> TRUE,
                      parsable |-> file.parsable, json |-> file.json]
       /\ IF file.parsable /\ hasStructure(file.json)
          THEN appData' = file.json
          ELSE UNCHANGED appData
  /\ UNCHANGED <<phase, call, page, inputs, slotResults, summary, listenerAdded>>

\* an edit of a slot's name, reward or mode, followed by its doCalc
EditSlot ==
  /\ phase = "ready"
  /\ page = "calculator"
  /\ \E idx \in DOMAIN inputs, name \in SlotNames, reward \in SlotRewards,
        mode \in SlotModes :
       LET in == [name |-> name, reward |-> reward, mode |-> mode]
           res == IF ~validInput(in) THEN NullResult
                  ELSE calcEfficiency(appData, name, reward, mode)
           sr == [i \in DOMAIN slotResults \cup {idx} |->
                    IF i = idx THEN res ELSE slotResults[i]]
       IN  /\ inputs' = [inputs EXCEPT ![idx] = in]
           /\ slotResults' = sr
           /\ summary' = updateTotalSummary(appData, sr)
  /\ UNCHANGED <<appData, phase, call, page, listenerAdded, offered>>

\* the parts of a pasted text: "name reward", or a part without a space
\* (name ""), which fills nothing
ImportParts ==
  UNION {[1..k -> {[name |-> n, reward |-> MaxReward] : n \in SlotNames}] :
           k \in 1..NumSlots}

\* click on the import button with a text that is not blank: every name and
\* reward is cleared, the parts are written, recalculateAllSlots()
ImportClick ==
  /\ phase = "ready"
  /\ page = "calculator"
  /\ \E parts \in ImportParts :
       LET inp == [i \in DOMAIN inputs |->
                     IF i <= Len(parts) /\ parts[i].name # ""
                     THEN [name |-> parts[i].name, reward |-> parts[i].reward,
                           mode |-> inputs[i].mode]
                     ELSE [name |-> "", reward |-> 0, mode |-> inputs[i].mode]]
           sr == recalculateAllSlots(appData, inp, slotResults)
       IN  /\ inputs' = inp
           /\ slotResults' = sr
           /\ summary' = updateTotalSummary(appData, sr)
  /\ UNCHANGED <<appData, phase, call, page, listenerAdded, offered>>

\* updateSettings: the settings are assigned from the inputs, then
\* recalculateAllSlots()
UpdateSettings ==
  /\ phase = "ready"
  /\ page = "calculator"
  /\ \E in \in InputSettings :
       LET d == withSettings(appData, in)
           sr == recalculateAllSlots(d, inputs, slotResults)
       IN  /\ appData' = d
           /\ slotResults' = sr
           /\ summary' = updateTotalSummary(d, sr)
  /\ UNCHANGED <<phase, call, page, inputs, listenerAdded, offered>>

NextUI ==
  \/ DOMContentLoaded
  \/ SelectCalcFile
  \/ SelectEditorFile
  \/ EditSlot
  \/ ImportClick
  \/ UpdateSettings

SpecUI == Init /\ [][NextUI]_vars

(***************************************************************************)
(* C15 (as stated): every loading path (fetch of data.json, file input of  *)
(* the calculator, file input of the editor) puts an object in place of    *)
(* the dataset only if it has the three fields materials, recipes and      *)
(* settings; otherwise the materials and recipes held before stay.         *)
(***************************************************************************)
Held(d) == [k \in DOMAIN d \cap {"materials", "recipes"} |-> d[k]]

C15_LoadersRejectIncomplete ==
  [][(offered' # offered
      /\ ~(offered'.ok /\ offered'.parsable
           /\ {"materials", "recipes", "settings"} \subseteq DOMAIN offered'.json))
     => Held(appData') = Held(appData)]_vars

(***************************************************************************)
(* C20 (as stated): the total summary counts the stored result of a slot   *)
(* only if the slot's present name is not empty and its present reward is  *)
(* a positive number.                                                      *)
(***************************************************************************)
C20_SummaryCountsOnlyFilledSlots ==
  \A i \in summary.counted :
    /\ i \in DOMAIN inputs
    /\ inputs[i].name # ""
    /\ inputs[i].reward > 0

(***************************************************************************)
(* C21 (as stated): for every mode handed to calcEfficiency, also one that *)
(* deliveryMap does not hold, a result with recommend = true has a round   *)
(* in {1, 2, 10, 20, 25} and as many items as deliveries 1..round need;    *)
(* no recommended result has an undefined round or zero items.             *)
(***************************************************************************)
C21_RecommendedHasMilestoneRound ==
  (CalledCalc /\ call.result.kind = "result" /\ call.result.recommend)
  => /\ call.result.hasRound
     /\ call.result.round \in {1, 2, 10, 20, 25}
     /\ call.result.totalItems = CumulativeUnits(call.result.round)
     /\ call.result.totalItems > 0

====
